---- MODULE Spec2Model ----
(***************************************************************************)
(* Job lifecycle and reconciliation engine of the transcription app.       *)
(*                                                                         *)
(* Spec      : the backend handlers acting on the metadata store           *)
(*             (DynamoDB table) and the managed transcription service.     *)
(* SpecPoll  : one session of the client's status poller against every     *)
(*             answer the API can give.                                    *)
(*                                                                         *)
(* Strings that the code takes apart (object keys, job names, ids) are     *)
(* sequences of tokens: the pieces between '-' (and '.') of the string.    *)
(***************************************************************************)
EXTENDS Integers, Sequences, FiniteSets, TLC

(***************************************************************************)
(* Bounds                                                                  *)
(***************************************************************************)
\* Date.now() ranges over 1..MaxClock
MaxClock == 2
\* objects uploaded to the audio bucket
MaxUploads == 1
\* jobs handed to the managed service
MaxJobs == 2

\* uuid part of an object key (randomUUID(): characters [a-f0-9-])
Uuids == {"a1"}
\* transcript.results.transcripts[0].transcript of a finished job
Texts == {"", "hello world"}
\* file names a client submits
FileNames == {<<"clip", "wav">>}

(***************************************************************************)
(* Token strings                                                           *)
(***************************************************************************)
Stamp(n) == ToString(n)

DigitTokens == {Stamp(n) : n \in 0..(MaxClock + 1)}

\* tokens matched by the character class [a-f0-9]
HexTokens == DigitTokens \cup Uuids

\* tokens matched by the regex fragment \\d+ of a regex literal: a backslash
\* followed by one or more letters d
BackslashDTokens == {"\\d", "\\dd"}

HasPrefix(s, p) == Len(s) >= Len(p) /\ SubSeq(s, 1, Len(p)) = p

\* s.replace(/^p/, '')
StripPrefix(s, p) == IF HasPrefix(s, p) THEN SubSeq(s, Len(p) + 1, Len(s)) ELSE s

HasSuffixWebm(s, stampClass) ==
    /\ Len(s) >= 2
    /\ s[Len(s) - 1] = "webm"
    /\ s[Len(s)] \in stampClass

\* s.replace(/-webm-<stamp>$/, '')
StripWebmSuffix(s, stampClass) ==
    IF HasSuffixWebm(s, stampClass) THEN SubSeq(s, 1, Len(s) - 2) ELSE s

\* Positions <<i, g>> at which  prefix-([a-f0-9-]+)-(<stamp>)[-webm-<stamp>]
\* matches name: the prefix starts at token i, the first group holds g tokens.
PatternMatches(name, prefix, stampClass, needWebm) ==
    {m \in (1..Len(name)) \X (1..Len(name)) :
        LET i == m[1]
            g == m[2]
            b == i + Len(prefix)
        IN  /\ b + g <= Len(name)
            /\ SubSeq(name, i, b - 1) = prefix
            /\ \A k \in b..(b + g - 1) : name[k] \in HexTokens
            /\ name[b + g] \in stampClass
            /\ needWebm =>
                  /\ b + g + 2 <= Len(name)
                  /\ name[b + g + 1] = "webm"
                  /\ name[b + g + 2] \in stampClass}

\* String.prototype.match: leftmost start, greedy first group.  The value is
\* match[1] + '-' + match[2], or <<>> when the pattern does not match.
PatternId(name, prefix, stampClass, needWebm) ==
    LET ms == PatternMatches(name, prefix, stampClass, needWebm)
    IN  IF ms = {} THEN <<>>
        ELSE LET i == CHOOSE x \in {m[1] : m \in ms} : \A y \in {m[1] : m \in ms} : x <= y
                 gs == {m[2] : m \in {n \in ms : n[1] = i}}
                 g == CHOOSE x \in gs : \A y \in gs : x >= y
                 b == i + Len(prefix)
             IN  SubSeq(name, b, b + g)

TriggerPrefix == <<"transcription", "job">>
ManualPrefix == <<"manual", "transcription">>

\* start-transcription: `transcription-job-${objectKey.replace(/[^a-zA-Z0-9]/g,'-')}-${Date.now()}`
TriggerJobName(key, t) == TriggerPrefix \o key.id \o <<key.ext>> \o <<Stamp(t)>>

\* manual-start-transcription: `manual-transcription-${transcriptionId}-${Date.now()}`
ManualJobName(id, t) == ManualPrefix \o id \o <<Stamp(t)>>

\* objectKey.split('.')[0]
KeyId(key) == key.id

\* autoFixAllTranscriptions: the id extracted from a job name
SweepDeriveId(jobName) ==
    LET webmId == PatternId(jobName, TriggerPrefix, BackslashDTokens, TRUE)
        manualId == PatternId(jobName, ManualPrefix, BackslashDTokens, FALSE)
    IN  IF webmId # <<>> THEN webmId
        ELSE IF manualId # <<>> THEN manualId
        ELSE StripWebmSuffix(StripPrefix(StripPrefix(jobName, TriggerPrefix), ManualPrefix),
                             BackslashDTokens)

\* process-transcription: the id extracted from a job name ('' when no pattern matches)
CallbackDeriveId(jobName) ==
    LET webmId == PatternId(jobName, TriggerPrefix, DigitTokens, TRUE)
        manualId == PatternId(jobName, ManualPrefix, DigitTokens, FALSE)
    IN  IF webmId # <<>> THEN webmId
        ELSE IF manualId # <<>> THEN manualId
        ELSE <<>>

(***************************************************************************)
(* State                                                                   *)
(***************************************************************************)
VARIABLES
    now,        \* Date.now()
    objects,    \* keys written to the audio bucket
    events,     \* object-created notifications not yet delivered
    jobs,       \* managed service: job name -> [status, text]
    notices,    \* transcript files whose notification is not yet delivered
    table,      \* metadata store: id -> row
    sweepLog,   \* answers of the auto-fix runs made since the last other operation
    pollPc,     \* pollForTranscription: "idle", "loop" or "done"
    attempt,    \* its loop variable
    lastResp,   \* what its most recent status check returned
    lastWait,   \* milliseconds slept since its most recent status check
    seen,       \* the terminal statuses its status checks have returned
    sweeps,     \* how often it has called the auto-fix endpoint
    final,      \* what it did once the attempts ran out
    ui,         \* the state the App component renders, and the alert shown
    polled,     \* transcriptionId this pollForTranscription call was given
    abandoned,  \* closeModal ran while this call was in flight
    dateNow,    \* Date.now() of the client, in milliseconds since the page opened
    lastLoadRef,\* lastLoadRef.current
    loads,      \* list requests: the times they were issued at, those in flight,
                \* the last answer merged, the triggers skipped
    client,     \* handleTranscription after uploadToS3: position, id, requests issued
    deleted,    \* ids a DELETE /transcriptions/{id} removed (history, for the claims)
    smart,      \* smartWaitForTranscription: position, index into the waits, what it did
    derive,     \* an id, the job name composed with it and the id derived back
    rejected,   \* the id whose job the managed service refused in the last step
    submission, \* a blob on its way from the browser to the audio bucket
    writers,    \* the backend writers racing on one row: position, what each read, outcome
    sibling,    \* a second pollForTranscription call: its id, position, attempt
    steady,     \* every status check of the session so far answered IN_PROGRESS
    slept       \* milliseconds slept so far by such a session (0 for any other)

storeVars == <<now, objects, events, jobs, notices, table, sweepLog>>

pollVars == <<pollPc, attempt, lastResp, lastWait, seen, sweeps, final, ui>>

schedVars == <<steady, slept>>

sessVars == <<polled, abandoned, sibling>>

loadVars == <<dateNow, lastLoadRef, loads>>

lateVars == <<rejected, derive, smart, deleted, client>>

Statuses == {"IN_PROGRESS", "COMPLETED", "FAILED"}
Terminal == {"COMPLETED", "FAILED"}
Sources == {"microphone", "file"}

\* an attribute the item does not carry
NoText == "(absent)"
NoSource == "(absent)"
NoName == <<>>
NoTime == 0
NoError == ""

\* a DynamoDB item holding the key alone
BlankRow ==
    [status |-> "(absent)", text |-> NoText, jobName |-> NoName,
     originalFileName |-> NoName, source |-> NoSource, createdAt |-> NoTime,
     completedAt |-> NoTime, error |-> NoError]

HasRow(id) == id \in DOMAIN table

\* PutItemCommand: the item replaces whatever the key held
PutItem(t, id, row) == [x \in DOMAIN t \cup {id} |-> IF x = id THEN row ELSE t[x]]

\* UpdateItemCommand with a SET expression: the named attributes are written,
\* the others kept; a missing key is created with the named attributes alone
OldItem(t, id) == IF id \in DOMAIN t THEN t[id] ELSE BlankRow

DeleteItem(t, id) == [x \in DOMAIN t \ {id} |-> t[x]]

HasText(row) == row.text \notin {NoText, ""}

\* an operation other than the auto-fix run touched the stores
Disturb == sweepLog' = <<>>

StoreInit ==
    /\ now = 1
    /\ objects = {}
    /\ events = {}
    /\ jobs = [x \in {} |-> 0]
    /\ notices = {}
    /\ table = [x \in {} |-> 0]
    /\ sweepLog = <<>>

(***************************************************************************)
(* Environment: the clock, the object store, the managed service           *)
(***************************************************************************)
Tick ==
    /\ now < MaxClock
    /\ now' = now + 1
    /\ UNCHANGED <<objects, events, jobs, notices, table, sweepLog>>

\* presigned-url + PUT: `${randomUUID()}-${Date.now()}.${fileExtension}`
Upload(u, fileName) ==
    LET key == [id |-> <<u, Stamp(now)>>, ext |-> fileName[Len(fileName)],
                fileName |-> fileName]
    IN  /\ Cardinality(objects) < MaxUploads
        /\ \A k \in objects : k.id # key.id
        /\ objects' = objects \cup {key}
        /\ events' = events \cup {key}
        /\ Disturb
        /\ UNCHANGED <<now, jobs, notices, table>>

\* the managed service finishes a job; its completion signal may be missed
JobCompletes(j, txt, signal) ==
    /\ j \in DOMAIN jobs
    /\ jobs[j].status = "IN_PROGRESS"
    /\ jobs' = [jobs EXCEPT ![j] = [status |-> "COMPLETED", text |-> txt]]
    /\ notices' = IF signal THEN notices \cup {j} ELSE notices
    /\ Disturb
    /\ UNCHANGED <<now, objects, events, table>>

JobFails(j) ==
    /\ j \in DOMAIN jobs
    /\ jobs[j].status = "IN_PROGRESS"
    /\ jobs' = [jobs EXCEPT ![j] = [status |-> "FAILED", text |-> ""]]
    /\ Disturb
    /\ UNCHANGED <<now, objects, events, notices, table>>

\* StartTranscriptionJobCommand: accepted unless the service rejects it or
\* the name is taken
StartJob(js, name) == [x \in DOMAIN js \cup {name} |-> IF x = name THEN [status |-> "IN_PROGRESS", text |-> ""] ELSE js[x]]

(***************************************************************************)
(* start-transcription: the storage-triggered start                        *)
(***************************************************************************)
\* s3Ok: GetObject succeeded within its retries; accepted: the managed
\* service took the job
StartTranscription(key, s3Ok, accepted) ==
    LET jobName == TriggerJobName(key, now)
        transcriptionId == KeyId(key)
        started == accepted /\ jobName \notin DOMAIN jobs
        row == [BlankRow EXCEPT
                  !.jobName = jobName,
                  !.originalFileName = key.fileName,
                  !.source = "file",
                  !.createdAt = now]
    IN  /\ key \in events
        /\ Cardinality(DOMAIN jobs) < MaxJobs
        /\ events' = events \ {key}
        /\ IF ~s3Ok \/ key.ext = "webm"
           THEN UNCHANGED <<jobs, table>>
           ELSE IF started
           THEN /\ jobs' = StartJob(jobs, jobName)
                /\ table' = PutItem(table, transcriptionId,
                                    [row EXCEPT !.status = "IN_PROGRESS"])
           ELSE /\ jobs' = jobs
                /\ table' = PutItem(table, transcriptionId,
                                    [row EXCEPT !.status = "FAILED",
                                                !.error = "Failed to start transcription"])
        /\ Disturb
        /\ UNCHANGED <<now, objects, notices>>

(***************************************************************************)
(* manual-start-transcription: the explicit start                          *)
(***************************************************************************)
ManualStart(key, fileName, source, accepted) ==
    LET transcriptionId == KeyId(key)
        jobName == ManualJobName(transcriptionId, now)
        started == accepted /\ jobName \notin DOMAIN jobs
    IN  /\ key \in objects
        /\ Cardinality(DOMAIN jobs) < MaxJobs
        /\ IF key.ext = "webm" \/ ~started
           THEN UNCHANGED <<jobs, table>>
           ELSE /\ jobs' = StartJob(jobs, jobName)
                /\ table' = PutItem(table, transcriptionId,
                                    [BlankRow EXCEPT
                                       !.status = "IN_PROGRESS",
                                       !.jobName = jobName,
                                       !.originalFileName = fileName,
                                       !.source = source,
                                       !.createdAt = now])
        /\ Disturb
        /\ UNCHANGED <<now, objects, events, notices>>

(***************************************************************************)
(* get-transcription: the status check, which repairs an IN_PROGRESS row   *)
(***************************************************************************)
\* serviceOk: GetTranscriptionJob answered; fetched: the transcript URI had
\* the s3:// form and the object was read
GetTranscription(id, serviceOk, fetched) ==
    /\ IF ~HasRow(id) THEN table' = table
       ELSE LET transcription == table[id]
            IN  IF transcription.status \in Terminal THEN table' = table
                ELSE IF transcription.status = "IN_PROGRESS"
                        /\ transcription.jobName # NoName
                        /\ serviceOk
                        /\ transcription.jobName \in DOMAIN jobs
                THEN LET job == jobs[transcription.jobName]
                     IN  IF job.status = "COMPLETED" /\ fetched
                         THEN table' = [table EXCEPT ![id] =
                                  [@ EXCEPT !.status = "COMPLETED",
                                            !.text = job.text,
                                            !.completedAt = now]]
                         ELSE IF job.status = "FAILED"
                         THEN table' = [table EXCEPT ![id] =
                                  [@ EXCEPT !.status = "FAILED",
                                            !.error = "AWS Transcribe job failed"]]
                         ELSE table' = table
                ELSE table' = table
    /\ Disturb
    /\ UNCHANGED <<now, objects, events, jobs, notices>>

(***************************************************************************)
(* process-transcription: the completion callback                          *)
(***************************************************************************)
updateTranscriptionRecord(t, transcriptionId, status, transcriptText, jobName) ==
    PutItem(t, transcriptionId,
            [OldItem(t, transcriptionId) EXCEPT
               !.status = IF status = "COMPLETED" THEN "COMPLETED" ELSE "FAILED",
               !.text = transcriptText,
               !.completedAt = now,
               !.jobName = jobName])

\* the rows a scan with FilterExpression jobName = :jobName returns
RowsByJobName(jobName) == {id \in DOMAIN table : table[id].jobName = jobName}

\* s3Ok: the transcript file was read within the retries
ProcessTranscription(j, s3Ok) ==
    /\ j \in notices
    /\ notices' = notices \ {j}
    /\ IF ~s3Ok THEN table' = table
       ELSE IF RowsByJobName(j) # {}
       THEN \E id \in RowsByJobName(j) :
               table' = updateTranscriptionRecord(table, id, "COMPLETED", jobs[j].text, j)
       ELSE LET transcriptionId == CallbackDeriveId(j)
            IN  IF transcriptionId # <<>> /\ HasRow(transcriptionId)
                THEN table' = updateTranscriptionRecord(table, transcriptionId,
                                                        "COMPLETED", jobs[j].text, j)
                ELSE table' = table
    /\ Disturb
    /\ UNCHANGED <<now, objects, events, jobs>>

(***************************************************************************)
(* delete-transcription                                                    *)
(***************************************************************************)
DeleteTranscription(id) ==
    /\ HasRow(id)
    /\ table' = DeleteItem(table, id)
    /\ Disturb
    /\ UNCHANGED <<now, objects, events, jobs, notices>>

(***************************************************************************)
(* auto-fix-transcriptions: the reconciliation sweep                       *)
(***************************************************************************)
CompletedJobs == {j \in DOMAIN jobs : jobs[j].status = "COMPLETED"}

\* the scan with FilterExpression #status = :status (IN_PROGRESS)
InProgressRecords ==
    {[id |-> id, jobName |-> table[id].jobName] :
        id \in {x \in DOMAIN table : table[x].status = "IN_PROGRESS"}}

\* MatchesRecord without its jobName alternative
MatchesRecordByIdOnly(record, transcriptionId, jobName) == record.id = transcriptionId

\* inProgressRecords.find(record => record.id.S === transcriptionId ||
\*                                  (record.jobName && record.jobName.S === jobName))
MatchesRecord(record, transcriptionId, jobName) ==
    \/ record.id = transcriptionId
    \/ (record.jobName # NoName /\ record.jobName = jobName)

\* the UpdateItemCommand of the sweep on a matched record
SweepFix(t, id, transcriptText, jobName) ==
    PutItem(t, id,
            [OldItem(t, id) EXCEPT
               !.status = "COMPLETED",
               !.text = transcriptText,
               !.completedAt = now,
               !.jobName = jobName])

\* the PutItemCommand of the sweep for a job without a matched record
SweepCreate(t, transcriptionId, transcriptText, jobName) ==
    PutItem(t, transcriptionId,
            [status |-> "COMPLETED", text |-> transcriptText, jobName |-> jobName,
             originalFileName |-> <<"voice", "recording",
                                    transcriptionId[Len(transcriptionId)], "webm">>,
             source |-> "microphone", createdAt |-> now, completedAt |-> now,
             error |-> NoError])

\* the counters and the table at the start of the loop
SweepStart == [t |-> table, processedCount |-> 0, fixedCount |-> 0, createdCount |-> 0,
               errors |-> 0]

\* one iteration of the loop over completedJobs, as the set of its outcomes
\* (find returns the first match in scan order, which the code does not fix);
\* itemOk: the job details and the transcript were fetched and parsed
SweepItem(s, snap, jobName, itemOk) ==
    LET transcriptText == jobs[jobName].text
        transcriptionId == SweepDeriveId(jobName)
        found == {r \in snap : MatchesRecord(r, transcriptionId, jobName)}
        next == [s EXCEPT !.processedCount = @ + 1]
    IN  IF ~itemOk THEN {[next EXCEPT !.errors = @ + 1]}
        ELSE IF found # {}
        THEN {[next EXCEPT !.t = SweepFix(s.t, existingRecord.id, transcriptText, jobName),
                           !.fixedCount = @ + 1] : existingRecord \in found}
        ELSE IF transcriptionId # <<>>
        THEN {[next EXCEPT !.t = SweepCreate(s.t, transcriptionId, transcriptText, jobName),
                           !.createdCount = @ + 1]}
        ELSE {next}

\* the loop with the try around it instead of inside it: the first job whose
\* processing throws ends the loop
RECURSIVE SweepLoopAborting(_, _, _, _)
SweepLoopAborting(s, snap, order, failing) ==
    IF order = <<>> THEN {s}
    ELSE IF Head(order) \in failing THEN SweepItem(s, snap, Head(order), FALSE)
    ELSE UNION {SweepLoopAborting(s2, snap, Tail(order), failing) :
                   s2 \in SweepItem(s, snap, Head(order), TRUE)}

\* for (const jobSummary of completedJobs) { try { ... } catch (itemError) { ... } }
RECURSIVE SweepLoop(_, _, _, _)
SweepLoop(s, snap, order, failing) ==
    IF order = <<>> THEN {s}
    ELSE UNION {SweepLoop(s2, snap, Tail(order), failing) :
                   s2 \in SweepItem(s, snap, Head(order), Head(order) \notin failing)}

\* the orders in which ListTranscriptionJobs may return the jobs of a set
Orders(S) == {o \in [1..Cardinality(S) -> S] : \A j \in S : \E i \in DOMAIN o : o[i] = j}

\* the answer of the handler; seq tells one run from the next
SweepEntry(http, s) ==
    [http |-> http, processedCount |-> s.processedCount, fixedCount |-> s.fixedCount,
     createdCount |-> s.createdCount, errors |-> s.errors,
     seq |-> IF sweepLog = <<>> THEN 0 ELSE 1 - sweepLog[Len(sweepLog)].seq]

\* the answers are logged newest last; the two newest are kept
Logged(log, e) == IF Len(log) < 2 THEN Append(log, e) ELSE <<log[2], e>>

\* the whole handler.  listOk: ListTranscriptionJobs answered; scanOk: the
\* table scan answered; failing: the jobs whose processing throws
AutoFix(listOk, scanOk, order, failing) ==
    /\ IF ~listOk \/ (CompletedJobs # {} /\ ~scanOk)
       THEN /\ sweepLog' = Logged(sweepLog, SweepEntry(500, SweepStart))
            /\ table' = table
       ELSE IF CompletedJobs = {}
       THEN /\ sweepLog' = Logged(sweepLog, SweepEntry(200, SweepStart))
            /\ table' = table
       ELSE \E s \in SweepLoop(SweepStart, InProgressRecords, order, failing) :
               /\ sweepLog' = Logged(sweepLog, SweepEntry(200, s))
               /\ table' = s.t
    /\ UNCHANGED <<now, objects, events, jobs, notices>>

(***************************************************************************)
(* The three writers of a row, each as a read step and a write step, for   *)
(* the interleavings of a status check, a sweep and a completion callback  *)
(***************************************************************************)
Writers == {"check", "sweep", "callback"}

Waiting == [pc |-> "idle", seen |-> {}, late |-> FALSE, outcome |-> "none"]

NoRace == writers = [w \in Writers |-> Waiting]

\* the ConditionExpression of a writer's command, evaluated on the stored
\* item, when it stands for "the row is still IN_PROGRESS"
ConditionStillInProgress(item) == item.status = "IN_PROGRESS"

\* the writers' UpdateItemCommands carry no ConditionExpression: the write is
\* accepted whatever the stored item holds
ConditionExpression(item) == TRUE

\* the key, the job and the row of the race: an upload whose job the
\* storage-triggered start started at time 1
RaceKey(u, f) == [id |-> <<u, Stamp(1)>>, ext |-> f[Len(f)], fileName |-> f]

RaceStore ==
    /\ now = 1
    /\ events = {}
    /\ sweepLog = <<>>
    /\ \E u \in Uuids, f \in {x \in FileNames : x[Len(x)] # "webm"} :
          LET key == RaceKey(u, f)
              jobName == TriggerJobName(key, 1)
          IN  /\ objects = {key}
              /\ jobs = StartJob([x \in {} |-> 0], jobName)
              /\ table = PutItem([x \in {} |-> 0], KeyId(key),
                                 [BlankRow EXCEPT !.jobName = jobName,
                                                  !.originalFileName = f,
                                                  !.source = "file",
                                                  !.createdAt = 1,
                                                  !.status = "IN_PROGRESS"])
              /\ notices = {}
    /\ NoRace

\* the one job and the one row the writers work on
RaceJob == CHOOSE j \in DOMAIN jobs : TRUE
RaceRow == CHOOSE id \in DOMAIN table : table[id].createdAt = 1 /\ table[id].source = "file"

\* the row holds a terminal status when the writer acts
Late == table[RaceRow].status \in Terminal

Finished(w, late, outcome) ==
    writers' = [writers EXCEPT ![w] = [@ EXCEPT !.pc = "done", !.late = late,
                                                !.outcome = outcome]]

\* get-transcription: GetItemCommand
CheckRead ==
    /\ writers["check"].pc = "idle"
    /\ jobs[RaceJob].status = "COMPLETED"
    /\ writers' = [writers EXCEPT !["check"] =
                      [@ EXCEPT !.pc = "read", !.seen = {table[RaceRow].status}]]
    /\ UNCHANGED storeVars

\* get-transcription: what follows the read; fetched: the transcript was read
CheckWrite(fetched) ==
    /\ writers["check"].pc = "read"
    /\ IF writers["check"].seen # {"IN_PROGRESS"}
       THEN /\ table' = table
            /\ Finished("check", TRUE, "ok")
       ELSE IF ~fetched
       THEN /\ table' = table
            /\ Finished("check", Late, "unavailable")
       ELSE IF ConditionExpression(table[RaceRow])
       THEN /\ table' = [table EXCEPT ![RaceRow] =
                            [@ EXCEPT !.status = "COMPLETED",
                                      !.text = jobs[RaceJob].text,
                                      !.completedAt = now]]
            /\ Finished("check", Late, "ok")
       ELSE /\ table' = table
            /\ Finished("check", Late, "conflict")
    /\ UNCHANGED <<now, objects, events, jobs, notices, sweepLog>>

\* auto-fix: ListTranscriptionJobs and the scan of the IN_PROGRESS rows
SweepScan ==
    /\ writers["sweep"].pc = "idle"
    /\ jobs[RaceJob].status = "COMPLETED"
    /\ writers' = [writers EXCEPT !["sweep"] =
                      [@ EXCEPT !.pc = "read", !.seen = InProgressRecords]]
    /\ UNCHANGED storeVars

\* auto-fix: the loop body for the job; itemOk: its details and transcript
\* were fetched
SweepWrite(itemOk) ==
    LET snap == writers["sweep"].seen
        found == {r \in snap : MatchesRecord(r, SweepDeriveId(RaceJob), RaceJob)}
    IN  /\ writers["sweep"].pc = "read"
        /\ IF itemOk /\ \E r \in found : ~ConditionExpression(table[r.id])
           THEN /\ table' = table
                /\ Finished("sweep", Late, "conflict")
           ELSE \E s \in SweepItem(SweepStart, snap, RaceJob, itemOk) :
                   /\ table' = s.t
                   /\ Finished("sweep", Late,
                               IF s.errors > 0 THEN "unavailable" ELSE "ok")
        /\ UNCHANGED <<now, objects, events, jobs, notices, sweepLog>>

\* process-transcription: the transcript file is read, then the scan by
\* jobName; s3Ok: the file was read within the retries
CallbackScan(s3Ok) ==
    /\ writers["callback"].pc = "idle"
    /\ RaceJob \in notices
    /\ notices' = notices \ {RaceJob}
    /\ IF s3Ok
       THEN writers' = [writers EXCEPT !["callback"] =
                           [@ EXCEPT !.pc = "read", !.seen = RowsByJobName(RaceJob)]]
       ELSE Finished("callback", Late, "unavailable")
    /\ UNCHANGED <<now, objects, events, jobs, table, sweepLog>>

\* process-transcription: updateTranscriptionRecord on scanResult.Items[0]
CallbackWrite ==
    /\ writers["callback"].pc = "read"
    /\ \E id \in writers["callback"].seen :
          IF ConditionExpression(OldItem(table, id))
          THEN /\ table' = updateTranscriptionRecord(table, id, "COMPLETED",
                                                     jobs[RaceJob].text, RaceJob)
               /\ Finished("callback", Late, "ok")
          ELSE /\ table' = table
               /\ Finished("callback", Late, "conflict")
    /\ UNCHANGED <<now, objects, events, jobs, notices, sweepLog>>

(***************************************************************************)
(* The writers of a row against a user's delete                            *)
(***************************************************************************)
\* DELETE /transcriptions/{id} answered 200: DeleteItemCommand went through
UserDelete(id) ==
    /\ DeleteTranscription(id)
    /\ deleted' = deleted \cup {id}

\* auto-fix: the loop body for the job, on the records the scan returned
\* before; itemOk: its details and transcript were fetched
SweepUpdate(itemOk) ==
    /\ writers["sweep"].pc = "read"
    /\ \E s \in SweepItem(SweepStart, writers["sweep"].seen, RaceJob, itemOk) :
          /\ table' = s.t
          /\ Finished("sweep", FALSE, IF s.errors > 0 THEN "unavailable" ELSE "ok")
    /\ UNCHANGED <<now, objects, events, jobs, notices, sweepLog>>

\* process-transcription: the transcript file is read, then the scan by
\* jobName; s3Ok: the file was read within the retries
CallbackRead(s3Ok) ==
    /\ writers["callback"].pc = "idle"
    /\ RaceJob \in notices
    /\ notices' = notices \ {RaceJob}
    /\ IF s3Ok
       THEN writers' = [writers EXCEPT !["callback"] =
                           [@ EXCEPT !.pc = "read", !.seen = RowsByJobName(RaceJob)]]
       ELSE Finished("callback", FALSE, "unavailable")
    /\ UNCHANGED <<now, objects, events, jobs, table, sweepLog>>

\* process-transcription: what follows the scan by jobName: the update of
\* Items[0], or the search by the id extracted from the job name
CallbackUpdate ==
    /\ writers["callback"].pc = "read"
    /\ IF writers["callback"].seen # {}
       THEN \E id \in writers["callback"].seen :
               table' = updateTranscriptionRecord(table, id, "COMPLETED",
                                                  jobs[RaceJob].text, RaceJob)
       ELSE LET transcriptionId == CallbackDeriveId(RaceJob)
            IN  IF transcriptionId # <<>> /\ HasRow(transcriptionId)
                THEN table' = updateTranscriptionRecord(table, transcriptionId, "COMPLETED",
                                                        jobs[RaceJob].text, RaceJob)
                ELSE table' = table
    /\ Finished("callback", FALSE, "ok")
    /\ UNCHANGED <<now, objects, events, jobs, notices, sweepLog>>

\* the jobs the two starts can have created for the upload with this id
JobsOf(id) ==
    {j \in DOMAIN jobs :
        \E k \in objects, t \in 0..MaxClock :
           KeyId(k) = id /\ j \in {TriggerJobName(k, t), ManualJobName(id, t)}}

(***************************************************************************)
(* pollForTranscription (App.tsx): the status poller of the client         *)
(***************************************************************************)
\* pollForTranscription(transcriptionId, maxAttempts = 30)
MaxAttempts == 30

\* what fetch(`/transcriptions/${id}`) gives the poller:
\*   COMPLETED        200, status COMPLETED, text non-empty
\*   COMPLETED_EMPTY  200, status COMPLETED, text empty or missing
\*   FAILED           200, status FAILED
\*   IN_PROGRESS      200, status IN_PROGRESS
\*   NOT_FOUND        404
\*   HTTP_ERROR       another non-2xx answer
\*   THROW            fetch rejects (transport-level error)
Responses == {"COMPLETED", "COMPLETED_EMPTY", "FAILED", "IN_PROGRESS", "NOT_FOUND",
              "HTTP_ERROR", "THROW"}

\* getPollingInterval with its first tier one attempt longer
getPollingIntervalInclusive(a) == IF a <= 5 THEN 2000 ELSE IF a <= 10 THEN 3000 ELSE 5000

\* the checkpoints with the first iteration added
IsFixCheckpointOrFirst(a) == a \in {0, 3, 8, 15}

\* the terminal status a response carries, if any
TerminalOf(resp) ==
    IF resp \in {"COMPLETED", "COMPLETED_EMPTY"} THEN {"COMPLETED"}
    ELSE IF resp = "FAILED" THEN {"FAILED"}
    ELSE {}

getPollingInterval(a) == IF a < 5 THEN 2000 ELSE IF a < 10 THEN 3000 ELSE 5000

\* if (attempt === 3 || attempt === 8 || attempt === 15)
IsFixCheckpoint(a) == a \in {3, 8, 15}

\* the further status check made whatever the auto-fix answered
RechecksAlways(fixed) == TRUE

\* if (fixed) { ...one more status check... }
RechecksAfterFinalFix(fixed) == fixed

NoFinal == [via |-> "none", sweeps |-> 0, checks |-> 0, fixed |-> FALSE]

\* ids of submissions: fileKey.split('.')[0]
JobIds == {<<u, Stamp(t)>> : u \in Uuids, t \in 1..MaxClock}

\* the createdAt of the row of a job, as new Date(transcription.createdAt)
CreatedAt(id) == CHOOSE t \in 1..MaxClock : Stamp(t) = id[2]

\* the file name handleTranscription is given for a submission
NameOf(id) == <<"clip">> \o id \o <<"wav">>

\* transcription.text of the COMPLETED row of a job
TranscriptOf(id) == <<"transcript", "of">> \o id

\* the useState initial values of App
FreshUi ==
    [transcriptionText |-> <<>>, isTranscribing |-> FALSE, alert |-> "none",
     showTranscriptionModal |-> FALSE, fileName |-> <<>>, transcriptionHistory |-> <<>>]

\* setFileName(filename); setShowTranscriptionModal(true); setIsTranscribing(true)
Opened(u, id) ==
    [u EXCEPT !.fileName = NameOf(id), !.showTranscriptionModal = TRUE,
              !.isTranscribing = TRUE]

\* setTranscriptionText(text); setIsTranscribing(false);
\* setTranscriptionHistory(prev => [newItem, ...prev])
ShowResult(u, id) ==
    [u EXCEPT !.transcriptionText = TranscriptOf(id),
              !.isTranscribing = FALSE,
              !.transcriptionHistory =
                  <<[id |-> id, text |-> TranscriptOf(id), timestamp |-> CreatedAt(id)]>> \o @]

\* setIsTranscribing(false); alert(message)
ShowAlert(u, message) == [u EXCEPT !.isTranscribing = FALSE, !.alert = message]

PollIdle ==
    /\ pollPc = "idle"
    /\ attempt = 0
    /\ lastResp = "none"
    /\ lastWait = 0
    /\ seen = {}
    /\ sweeps = 0
    /\ final = NoFinal
    /\ ui = FreshUi

\* handleTranscription has set isTranscribing and calls pollForTranscription
PollStart ==
    /\ pollPc = "loop"
    /\ attempt = 0
    /\ lastResp = "none"
    /\ lastWait = 0
    /\ seen = {}
    /\ sweeps = 0
    /\ final = NoFinal
    /\ ui = Opened(FreshUi, polled)

\* setTranscriptionText(text); setIsTranscribing(false); return
Succeed == ui' = ShowResult(ui, polled)

\* the alert without setIsTranscribing(false)
GiveUpStillTranscribing(message) == ui' = [ui EXCEPT !.alert = message]

\* setIsTranscribing(false); alert(message)
GiveUp(message) == ui' = ShowAlert(ui, message)

\* the last auto-fix and, if it fixed something, one more status check; the
\* session ends with the transcript or with the alert.  loopResp: the answer
\* of the status check the loop made last
FinalPhase(via, loopResp, fixed, finalResp, message) ==
    LET recheck == RechecksAfterFinalFix(fixed)
    IN  /\ final' = [via |-> via, sweeps |-> 1, checks |-> IF recheck THEN 1 ELSE 0,
                     fixed |-> fixed]
        /\ sweeps' = sweeps + 1
        /\ lastResp' = IF recheck THEN finalResp ELSE loopResp
        /\ seen' = seen \cup TerminalOf(loopResp)
                        \cup (IF recheck THEN TerminalOf(finalResp) ELSE {})
        /\ IF recheck /\ finalResp = "COMPLETED" THEN Succeed ELSE GiveUp(message)
        /\ pollPc' = "done"

\* one iteration of the loop: the status check, the auto-fix it may call
\* (fixed: fixedCount > 0) and the sleep before the next attempt
PollAttempt(resp, fixed, finalResp) ==
    /\ pollPc = "loop"
    /\ attempt < MaxAttempts
    /\ IF resp = "COMPLETED"
       THEN /\ Succeed
            /\ pollPc' = "done"
            /\ lastResp' = resp
            /\ seen' = seen \cup TerminalOf(resp)
            /\ UNCHANGED <<attempt, lastWait, sweeps, final>>
       ELSE IF resp \in {"FAILED", "THROW"}
       THEN \* throw new Error(...) or a rejected fetch: the catch of the iteration
            IF attempt = MaxAttempts - 1
            THEN /\ FinalPhase("catch", resp, fixed, finalResp,
                               IF resp = "FAILED"
                               THEN "Transcription failed: Transcription failed on AWS side"
                               ELSE "Transcription failed: Failed to fetch")
                 /\ UNCHANGED <<attempt, lastWait>>
            ELSE /\ attempt' = attempt + 1
                 /\ lastResp' = resp
                 /\ seen' = seen \cup TerminalOf(resp)
                 /\ lastWait' = 0
                 /\ UNCHANGED <<pollPc, sweeps, final, ui>>
       ELSE /\ attempt' = attempt + 1
            /\ lastResp' = resp
            /\ seen' = seen \cup TerminalOf(resp)
            /\ sweeps' = IF \/ (resp = "IN_PROGRESS" /\ IsFixCheckpoint(attempt))
                            \/ (resp = "NOT_FOUND" /\ attempt > 2)
                         THEN sweeps + 1 ELSE sweeps
            /\ lastWait' = IF resp = "NOT_FOUND" /\ attempt > 2 /\ fixed
                           THEN 0  \* continue
                           ELSE getPollingInterval(attempt)
            /\ UNCHANGED <<pollPc, final, ui>>

\* the loop ran out of attempts
PollTimeout(fixed, finalResp) ==
    /\ pollPc = "loop"
    /\ attempt = MaxAttempts
    /\ FinalPhase("timeout", lastResp, fixed, finalResp,
                  "Transcription is taking longer than expected")
    /\ UNCHANGED <<attempt, lastWait>>

(***************************************************************************)
(* App.tsx: the modal and a second polling session in the same component   *)
(***************************************************************************)
NoSibling == [id |-> <<>>, pc |-> "idle", attempt |-> 0]

SessStart ==
    /\ polled = CHOOSE id \in JobIds : \A x \in JobIds : CreatedAt(id) <= CreatedAt(x)
    /\ abandoned = FALSE
    /\ sibling = NoSibling

closeModal ==
    /\ ui.showTranscriptionModal
    /\ ui' = [ui EXCEPT !.showTranscriptionModal = FALSE,
                         !.transcriptionText = <<>>,
                         !.isTranscribing = FALSE]
    /\ abandoned' = (abandoned \/ pollPc = "loop")
    /\ UNCHANGED <<polled, sibling>>

\* handleTranscription for another submission while the first call polls;
\* submitted: the upload and the start went through, so it reaches its
\* pollForTranscription
handleTranscription(id, submitted) ==
    /\ pollPc = "loop"
    /\ sibling.pc = "idle"
    /\ id # polled
    /\ IF submitted
       THEN /\ ui' = Opened(ui, id)
            /\ sibling' = [id |-> id, pc |-> "loop", attempt |-> 0]
       ELSE /\ ui' = ShowAlert(Opened(ui, id), "Transcription failed: Failed to get upload URL")
            /\ sibling' = [id |-> id, pc |-> "done", attempt |-> 0]
    /\ UNCHANGED <<polled, abandoned>>

\* the final auto-fix of the second call and what it shows
SiblingFinal(fixed, finalResp, message) ==
    /\ ui' = IF RechecksAfterFinalFix(fixed) /\ finalResp = "COMPLETED"
             THEN ShowResult(ui, sibling.id)
             ELSE ShowAlert(ui, message)
    /\ sibling' = [sibling EXCEPT !.pc = "done"]

\* one iteration of the loop of the second call
SiblingAttempt(resp, fixed, finalResp) ==
    /\ sibling.pc = "loop"
    /\ sibling.attempt < MaxAttempts
    /\ IF resp = "COMPLETED"
       THEN /\ ui' = ShowResult(ui, sibling.id)
            /\ sibling' = [sibling EXCEPT !.pc = "done"]
       ELSE IF resp \in {"FAILED", "THROW"} /\ sibling.attempt = MaxAttempts - 1
       THEN SiblingFinal(fixed, finalResp,
                       IF resp = "FAILED"
                       THEN "Transcription failed: Transcription failed on AWS side"
                       ELSE "Transcription failed: Failed to fetch")
       ELSE /\ sibling' = [sibling EXCEPT !.attempt = @ + 1]
            /\ ui' = ui
    /\ UNCHANGED <<polled, abandoned>>

\* the loop of the second call ran out of attempts
SiblingTimeout(fixed, finalResp) ==
    /\ sibling.pc = "loop"
    /\ sibling.attempt = MaxAttempts
    /\ SiblingFinal(fixed, finalResp, "Transcription is taking longer than expected")
    /\ UNCHANGED <<polled, abandoned>>

(***************************************************************************)
(* App.tsx: loadTranscriptions, the history list and its merge             *)
(***************************************************************************)
\* milliseconds the client's clock is followed for
MaxElapsed == 2000

\* the cooldown of loadTranscriptions
Cooldown == 2000

\* the amounts the clock advances by between two events
Elapses == {999, 1000}

\* Date.now() when the page opens, relative to lastLoadRef's initial 0
PageOpened == 5000

LoadStart ==
    /\ dateNow = PageOpened
    /\ lastLoadRef = 0
    /\ loads = [issued |-> <<>>, inflight |-> 0, answer |-> <<>>, merges |-> 0,
                skipped |-> FALSE]

\* the cooldown test with the bound one millisecond short
RateLimitedShort(t, last) == t - last < Cooldown - 1

\* if (now - lastLoadRef.current < 2000) return
RateLimited(t, last) == t - last < Cooldown

Ids(list) == {list[i].id : i \in DOMAIN list}

\* an entry of the list handler's answer for a job, as formatted by the client
ServerItem(id, revised) ==
    [id |-> id,
     text |-> IF revised THEN <<"revised">> \o TranscriptOf(id) ELSE TranscriptOf(id),
     timestamp |-> CreatedAt(id)]

\* merged.sort((a, b) => b.timestamp.getTime() - a.timestamp.getTime()):
\* newest first, entries of equal timestamp keep their order
RECURSIVE SortNewestFirst(_)
SortNewestFirst(list) ==
    IF list = <<>> THEN <<>>
    ELSE LET n == Len(list)
             front == SortNewestFirst(SubSeq(list, 1, n - 1))
             k == Cardinality({i \in DOMAIN front : front[i].timestamp >= list[n].timestamp})
         IN  SubSeq(front, 1, k) \o <<list[n]>> \o SubSeq(front, k + 1, Len(front))

\* the merge with the local entries taking precedence over the server's
MergeKeepingLocal(server, prev) ==
    SortNewestFirst(prev \o SelectSeq(server, LAMBDA item : item.id \notin Ids(prev)))

\* the function given to setTranscriptionHistory by loadTranscriptions
Merge(server, prev) ==
    SortNewestFirst(server \o SelectSeq(prev, LAMBDA localItem : localItem.id \notin Ids(server)))

\* the answers of GET /transcriptions?status=COMPLETED&limit=10: rows of
\* distinct ids, newest first
ServerLists ==
    {SortNewestFirst(pick) :
        pick \in UNION {{p \in [1..n -> {ServerItem(id, r) : id \in JobIds, r \in BOOLEAN}] :
                            \A i, j \in 1..n : i # j => p[i].id # p[j].id} :
                        n \in 0..Cardinality(JobIds)}}

\* time passes
Elapse(d) ==
    /\ dateNow + d <= PageOpened + MaxElapsed
    /\ dateNow' = dateNow + d
    /\ UNCHANGED <<lastLoadRef, loads, ui>>

\* loadTranscriptions up to its fetch; timer: called by the interval (whose
\* period restarts whenever isTranscribing changes, so it may fire at any
\* time), else by the effect that runs when the component mounts
loadTranscriptions(timer) ==
    /\ IF timer THEN ~ui.isTranscribing ELSE dateNow = PageOpened
    /\ IF RateLimited(dateNow, lastLoadRef)
       THEN /\ loads' = [loads EXCEPT !.skipped = ~@]
            /\ lastLoadRef' = lastLoadRef
       ELSE /\ lastLoadRef' = dateNow
            /\ loads' = [loads EXCEPT !.issued = Append(@, dateNow), !.inflight = @ + 1]
    /\ UNCHANGED <<dateNow, ui>>

\* the answer of a list request arrives; ok: response.ok
LoadResponse(server, ok) ==
    /\ loads.inflight > 0
    /\ IF ok
       THEN /\ ui' = [ui EXCEPT !.transcriptionHistory = Merge(server, @)]
            /\ loads' = [loads EXCEPT !.inflight = @ - 1, !.answer = server,
                                       !.merges = 1 - @]
       ELSE /\ ui' = ui
            /\ loads' = [loads EXCEPT !.inflight = @ - 1]
    /\ UNCHANGED <<dateNow, lastLoadRef>>

\* deleteHistoryItem; ok: the DELETE answered 2xx
deleteHistoryItem(id, ok) ==
    /\ id \in Ids(ui.transcriptionHistory)
    /\ ui' = IF ok
             THEN [ui EXCEPT !.transcriptionHistory = SelectSeq(@, LAMBDA item : item.id # id)]
             ELSE [ui EXCEPT !.alert = "Failed to delete transcription from server"]
    /\ UNCHANGED <<dateNow, lastLoadRef, loads>>

(***************************************************************************)
(* Submission: handleFileUpload / mediaRecorder.onstop, uploadToS3 and the *)
(* presigned-url handler                                                   *)
(***************************************************************************)
\* App.tsx: const MAX_FILE_SIZE = 200 * 1024 * 1024
MAX_FILE_SIZE == 200 * 1024 * 1024

\* presigned-url: const maxFileSize = 200 * 1024 * 1024
maxFileSize == 200 * 1024 * 1024

\* file.type of a chosen file
FileTypes == {"audio/mp3", "audio/mpeg", "audio/wav", "audio/m4a", "audio/mp4",
              "audio/webm", "audio/ogg"}

\* options.mimeType || 'audio/webm' of a recording
RecorderTypes == {"audio/mp4", "audio/wav", "audio/webm"}

\* blob sizes in bytes, around the ceiling
BlobSizes == {0, 1, MAX_FILE_SIZE - 1, MAX_FILE_SIZE, MAX_FILE_SIZE + 1}

\* handleFileUpload: allowedTypes
ClientAllowedTypes == {"audio/mp3", "audio/mpeg", "audio/wav", "audio/m4a", "audio/webm"}

\* presigned-url: allowedTypes
allowedTypes == {"audio/mp3", "audio/mpeg", "audio/wav", "audio/m4a", "audio/mp4",
                 "audio/webm"}

\* the size test with the ceiling itself refused
ReachesCeiling(fileSize) == fileSize >= maxFileSize

\* presigned-url: if (fileSize && fileSize > maxFileSize)
ExceedsCeiling(fileSize) == fileSize # 0 /\ fileSize > maxFileSize

NoSubmission ==
    submission = [path |-> "none", fileType |-> "", fileSize |-> 0, pc |-> "none",
                  error |-> "none", credential |-> FALSE, stored |-> FALSE]

\* a file was chosen or a recording stopped
SubmitInit ==
    \E path \in {"file", "microphone"}, size \in BlobSizes :
       \E type \in (IF path = "file" THEN FileTypes ELSE RecorderTypes) :
          submission = [path |-> path, fileType |-> type, fileSize |-> size,
                        pc |-> "selected", error |-> "none",
                        credential |-> FALSE, stored |-> FALSE]

\* handleFileUpload: the checks before handleTranscription
handleFileUpload ==
    /\ submission.path = "file"
    /\ submission.pc = "selected"
    /\ submission' =
          IF submission.fileSize > MAX_FILE_SIZE
          THEN [submission EXCEPT !.pc = "rejected", !.error = "File size too large"]
          ELSE IF submission.fileType \notin ClientAllowedTypes
          THEN [submission EXCEPT !.pc = "rejected", !.error = "Invalid file type"]
          ELSE [submission EXCEPT !.pc = "submitting"]

\* mediaRecorder.onstop: the blob goes to handleTranscription as it is
onstop ==
    /\ submission.path = "microphone"
    /\ submission.pc = "selected"
    /\ submission' = [submission EXCEPT !.pc = "submitting"]

\* uploadToS3: POST /upload-url and the presigned-url handler; reached: the
\* request got an answer from the handler
getUploadUrl(reached) ==
    /\ submission.pc = "submitting"
    /\ submission' =
          IF ~reached
          THEN [submission EXCEPT !.pc = "failed", !.error = "Failed to get upload URL"]
          ELSE IF submission.fileType \notin allowedTypes
          THEN [submission EXCEPT !.pc = "failed", !.error = "Invalid file type"]
          ELSE IF ExceedsCeiling(submission.fileSize)
          THEN [submission EXCEPT !.pc = "failed", !.error = "File size too large"]
          ELSE [submission EXCEPT !.pc = "granted", !.credential = TRUE]

\* the PUT without the test of uploadResponse.ok: the fileKey is returned
\* whatever the answer
putObjectUnchecked(ok) ==
    /\ submission.pc = "granted"
    /\ submission' = [submission EXCEPT !.pc = "uploaded", !.stored = ok]

\* uploadToS3: the PUT to the signed URL; ok: uploadResponse.ok
putObject(ok) ==
    /\ submission.pc = "granted"
    /\ submission' =
          IF ok THEN [submission EXCEPT !.pc = "uploaded", !.stored = TRUE]
          ELSE [submission EXCEPT !.pc = "failed", !.error = "Failed to upload file"]

(***************************************************************************)
(* App.tsx: handleTranscription once uploadToS3 has returned the fileKey   *)
(***************************************************************************)
\* const fileKey = await uploadToS3(...); transcriptionId = fileKey.split('.')[0]
fileKeyReturned(id) ==
    /\ client.pc = "none"
    /\ client' = [client EXCEPT !.pc = "uploaded", !.id = id]

\* checkTranscriptionExists: true on response.ok, false on 404, on another
\* status and on a rejected fetch; on true the poller is called at once
checkTranscriptionExists(found) ==
    /\ client.pc = "uploaded"
    /\ client' = [client EXCEPT
                    !.existsInDb = found,
                    !.pc = IF found THEN "polling" ELSE "starting",
                    !.requests = @ \o <<"GET /transcriptions/{id}">>
                                   \o (IF found THEN <<"poll">> ELSE <<>>)]

\* startManualTranscriptionJob: POST /manual-transcription; ok: response.ok;
\* otherwise it throws and the catch of handleTranscription alerts
startManualTranscriptionJob(ok) ==
    /\ client.pc = "starting"
    /\ client' = [client EXCEPT !.pc = IF ok THEN "started" ELSE "failed",
                                !.requests = @ \o <<"POST /manual-transcription">>]
    /\ ui' = IF ok THEN ui ELSE ShowAlert(ui, "Transcription failed")

\* the wait of 3000 ms, then pollForTranscription(transcriptionId)
firstPoll ==
    /\ client.pc = "started"
    /\ client' = [client EXCEPT !.pc = "polling", !.requests = @ \o <<"poll">>]

(***************************************************************************)
(* App.tsx: smartWaitForTranscription and tryDirectAutoFix                 *)
(***************************************************************************)
\* const waitIntervals = [1, 3, 5, 8], in milliseconds
waitIntervals == <<1000, 3000, 5000, 8000>>

\* the answers of a status check that smartWaitForTranscription tells apart
SmartResponses == {"COMPLETED", "FAILED", "IN_PROGRESS", "NOT_FOUND", "THROW"}

\* what one round does: the wait (none for the immediate round and for
\* tryDirectAutoFix), then autoFixTranscriptions, then the status check
Round(wait, resp) ==
    (IF wait = 0 THEN <<>> ELSE <<[do |-> "wait", ms |-> wait, resp |-> "none"]>>)
       \o <<[do |-> "sweep", ms |-> 0, resp |-> "none"],
            [do |-> "check", ms |-> 0, resp |-> resp]>>

\* the call of smartWaitForTranscription(transcriptionId)
SmartStart == smart = [pc |-> "immediate", i |-> 0, log |-> <<>>]

\* the immediate check
SmartImmediate(resp) ==
    /\ smart.pc = "immediate"
    /\ IF resp = "COMPLETED"
       THEN /\ smart' = [smart EXCEPT !.pc = "done", !.log = @ \o Round(0, resp)]
            /\ ui' = ShowResult(ui, polled)
       ELSE /\ smart' = [smart EXCEPT !.pc = "waits", !.log = @ \o Round(0, resp)]
            /\ ui' = ui

\* one iteration of the loop over waitIntervals; the error thrown for a
\* FAILED row is caught by the catch of the same iteration
SmartWait(resp) ==
    /\ smart.pc = "waits"
    /\ smart.i < Len(waitIntervals)
    /\ IF resp = "COMPLETED"
       THEN /\ smart' = [smart EXCEPT !.pc = "done",
                                      !.log = @ \o Round(waitIntervals[smart.i + 1], resp)]
            /\ ui' = ShowResult(ui, polled)
       ELSE /\ smart' = [smart EXCEPT !.i = @ + 1,
                                      !.log = @ \o Round(waitIntervals[smart.i + 1], resp)]
            /\ ui' = ui

\* the loop is over: tryDirectAutoFix, then the alert
SmartFinal(resp) ==
    /\ smart.pc = "waits"
    /\ smart.i = Len(waitIntervals)
    /\ smart' = [smart EXCEPT !.pc = "done", !.log = @ \o Round(0, resp)]
    /\ ui' = IF resp = "COMPLETED" THEN ShowResult(ui, polled)
             ELSE ShowAlert(ui, "Transcription is taking longer than expected")

\* the sleeps of a session whose status checks all answer IN_PROGRESS
SchedStart == steady = TRUE /\ slept = 0

\* what an iteration that got resp adds: lastWait' is the sleep it ended with
Sched(resp) ==
    /\ steady' = (steady /\ resp = "IN_PROGRESS")
    /\ slept' = IF steady' THEN slept + lastWait' ELSE 0

(***************************************************************************)
(* Specifications                                                          *)
(***************************************************************************)
vars == <<storeVars, pollVars, schedVars, sessVars, loadVars, writers, submission, lateVars>>

\* the observers start empty
NoDerive ==
    [id |-> <<>>, ext |-> "", t |-> 0, composition |-> "none", jobName |-> <<>>,
     derived |-> <<>>, pc |-> "none"]

NoClient == [pc |-> "none", id |-> <<>>, existsInDb |-> FALSE, requests |-> <<>>]

NoSmart == [pc |-> "none", i |-> 0, log |-> <<>>]

LateStart == rejected = <<>> /\ derive = NoDerive /\ smart = NoSmart /\ deleted = {} /\ client = NoClient

\* what the backend handlers leave alone
frontVars == <<pollVars, schedVars, sessVars, loadVars, writers, submission, lateVars>>

CanonicalIds == {KeyId(k) : k \in objects}

\* App.tsx: source: originalFileName.includes('voice-recording') ? 'microphone' : 'file'
ClientSource(fileName) ==
    IF \E i \in 1..(Len(fileName) - 1) : fileName[i] = "voice" /\ fileName[i + 1] = "recording"
    THEN "microphone" ELSE "file"

\* Spec: the backend handlers, the object store and the managed service
Init == StoreInit /\ PollIdle /\ SchedStart /\ SessStart /\ NoRace /\ LoadStart /\ NoSubmission /\ LateStart

Next ==
    \/ Tick /\ UNCHANGED frontVars
    \/ \E u \in Uuids, f \in FileNames : Upload(u, f) /\ UNCHANGED frontVars
    \/ \E j \in DOMAIN jobs, txt \in Texts, signal \in BOOLEAN :
          JobCompletes(j, txt, signal) /\ UNCHANGED frontVars
    \/ \E j \in DOMAIN jobs : JobFails(j) /\ UNCHANGED frontVars
    \/ \E k \in events, s3Ok \in BOOLEAN, accepted \in BOOLEAN :
          StartTranscription(k, s3Ok, accepted) /\ UNCHANGED frontVars
    \/ \E k \in objects, accepted \in BOOLEAN :
          ManualStart(k, k.fileName, ClientSource(k.fileName), accepted)
             /\ UNCHANGED frontVars
    \/ \E id \in CanonicalIds \cup DOMAIN table, serviceOk \in BOOLEAN, fetched \in BOOLEAN :
          GetTranscription(id, serviceOk, fetched) /\ UNCHANGED frontVars
    \/ \E j \in notices, s3Ok \in BOOLEAN : ProcessTranscription(j, s3Ok) /\ UNCHANGED frontVars
    \/ \E id \in DOMAIN table : DeleteTranscription(id) /\ UNCHANGED frontVars
    \/ \E listOk \in BOOLEAN, scanOk \in BOOLEAN, order \in Orders(CompletedJobs),
          failing \in SUBSET CompletedJobs :
          AutoFix(listOk, scanOk, order, failing) /\ UNCHANGED frontVars

Spec == Init /\ [][Next]_vars

\* SpecPoll: one polling session against every answer the API can give
PollInit ==
    StoreInit /\ SessStart /\ PollStart /\ SchedStart /\ NoRace /\ LoadStart /\ NoSubmission /\ LateStart

PollNext ==
    \/ \E resp \in Responses, fixed \in BOOLEAN, finalResp \in Responses :
          PollAttempt(resp, fixed, finalResp) /\ Sched(resp)
             /\ UNCHANGED <<storeVars, sessVars, loadVars, writers, submission, lateVars>>
    \/ \E fixed \in BOOLEAN, finalResp \in Responses :
          PollTimeout(fixed, finalResp) /\ UNCHANGED <<storeVars, schedVars, sessVars, loadVars, writers, submission, lateVars>>

SpecPoll == PollInit /\ [][PollNext]_vars

\* SpecPollFair: the same session; pollForTranscription is one async
\* function whose awaits (fetch, setTimeout) all settle, so it keeps going
SpecPollFair == PollInit /\ [][PollNext]_vars /\ WF_vars(PollNext)

\* SpecSessions: the polling call, the modal and a second polling call of the
\* same component; the answers are those that end a call or keep it going
SessionResponses == {"COMPLETED", "IN_PROGRESS", "THROW"}

SessionsNext ==
    \/ \E resp \in SessionResponses, fixed \in BOOLEAN :
          PollAttempt(resp, fixed, "COMPLETED") /\ Sched(resp)
             /\ UNCHANGED <<storeVars, sessVars, loadVars, writers, submission, lateVars>>
    \/ \E fixed \in BOOLEAN :
          PollTimeout(fixed, "COMPLETED") /\ UNCHANGED <<storeVars, schedVars, sessVars, loadVars, writers, submission, lateVars>>
    \/ closeModal
          /\ UNCHANGED <<storeVars, schedVars, loadVars, writers, submission, pollPc, attempt, lastResp, lastWait, seen,
                         sweeps, final, lateVars>>
    \/ \E id \in JobIds, submitted \in BOOLEAN :
          handleTranscription(id, submitted)
             /\ UNCHANGED <<storeVars, schedVars, loadVars, writers, submission, pollPc, attempt, lastResp, lastWait, seen,
                            sweeps, final, lateVars>>
    \/ \E resp \in SessionResponses, fixed \in BOOLEAN :
          SiblingAttempt(resp, fixed, "COMPLETED")
             /\ UNCHANGED <<storeVars, schedVars, loadVars, writers, submission, pollPc, attempt, lastResp, lastWait, seen,
                            sweeps, final, lateVars>>
    \/ \E fixed \in BOOLEAN :
          SiblingTimeout(fixed, "COMPLETED")
             /\ UNCHANGED <<storeVars, schedVars, loadVars, writers, submission, pollPc, attempt, lastResp, lastWait, seen,
                            sweeps, final, lateVars>>

SpecSessions == PollInit /\ [][SessionsNext]_vars

\* SpecRace: one row whose job completes, and the three writers of the row
\* taking their read and write steps in any order
RaceNext ==
    \/ Tick /\ UNCHANGED frontVars
    \/ \E txt \in Texts, signal \in BOOLEAN :
          JobCompletes(RaceJob, txt, signal) /\ UNCHANGED frontVars
    \/ CheckRead /\ UNCHANGED <<pollVars, schedVars, sessVars, loadVars, submission, lateVars>>
    \/ \E fetched \in BOOLEAN : CheckWrite(fetched) /\ UNCHANGED <<pollVars, schedVars, sessVars, loadVars, submission, lateVars>>
    \/ SweepScan /\ UNCHANGED <<pollVars, schedVars, sessVars, loadVars, submission, lateVars>>
    \/ \E itemOk \in BOOLEAN : SweepWrite(itemOk) /\ UNCHANGED <<pollVars, schedVars, sessVars, loadVars, submission, lateVars>>
    \/ \E s3Ok \in BOOLEAN : CallbackScan(s3Ok) /\ UNCHANGED <<pollVars, schedVars, sessVars, loadVars, submission, lateVars>>
    \/ CallbackWrite /\ UNCHANGED <<pollVars, schedVars, sessVars, loadVars, submission, lateVars>>

RaceInit == RaceStore /\ PollIdle /\ SchedStart /\ SessStart /\ LoadStart /\ NoSubmission /\ LateStart

SpecRace == RaceInit /\ [][RaceNext]_vars

\* SpecHistory: the history list under refreshes, a poll completion, a closed
\* modal and deletes
HistoryNext ==
    \/ \E d \in Elapses :
          Elapse(d) /\ UNCHANGED <<storeVars, schedVars, sessVars, writers, submission, pollPc, attempt,
                                    lastResp, lastWait, seen, sweeps, final, lateVars>>
    \/ \E timer \in BOOLEAN :
          loadTranscriptions(timer)
             /\ UNCHANGED <<storeVars, schedVars, sessVars, writers, submission, pollPc, attempt,
                            lastResp, lastWait, seen, sweeps, final, lateVars>>
    \/ \E server \in ServerLists, ok \in BOOLEAN :
          LoadResponse(server, ok)
             /\ UNCHANGED <<storeVars, schedVars, sessVars, writers, submission, pollPc, attempt,
                            lastResp, lastWait, seen, sweeps, final, lateVars>>
    \/ \E id \in JobIds, ok \in BOOLEAN :
          deleteHistoryItem(id, ok)
             /\ UNCHANGED <<storeVars, schedVars, sessVars, writers, submission, pollPc, attempt,
                            lastResp, lastWait, seen, sweeps, final, lateVars>>
    \/ PollAttempt("COMPLETED", FALSE, "COMPLETED") /\ Sched("COMPLETED")
          /\ UNCHANGED <<storeVars, sessVars, loadVars, writers, submission, lateVars>>
    \/ closeModal
          /\ UNCHANGED <<storeVars, schedVars, loadVars, writers, submission, pollPc, attempt, lastResp,
                         lastWait, seen, sweeps, final, lateVars>>

SpecHistory == PollInit /\ [][HistoryNext]_vars

\* SpecSubmit: one blob from the file chooser or the recorder up to the PUT
SubmitStart ==
    StoreInit /\ PollIdle /\ SchedStart /\ SessStart /\ NoRace /\ LoadStart /\ SubmitInit /\ LateStart

SubmitNext ==
    \/ handleFileUpload /\ UNCHANGED <<storeVars, pollVars, schedVars, sessVars, loadVars, writers, lateVars>>
    \/ onstop /\ UNCHANGED <<storeVars, pollVars, schedVars, sessVars, loadVars, writers, lateVars>>
    \/ \E reached \in BOOLEAN :
          getUploadUrl(reached)
             /\ UNCHANGED <<storeVars, pollVars, schedVars, sessVars, loadVars, writers, lateVars>>
    \/ \E ok \in BOOLEAN :
          putObject(ok)
             /\ UNCHANGED <<storeVars, pollVars, schedVars, sessVars, loadVars, writers, lateVars>>

SpecSubmit == SubmitStart /\ [][SubmitNext]_vars

\* SpecStart: the two start handlers, with the id whose job creation the
\* managed service refused in the step just taken
Refused(jobName, accepted) == ~(accepted /\ jobName \notin DOMAIN jobs)

StartNext ==
    \/ Tick /\ rejected' = <<>>
         /\ UNCHANGED <<derive, smart, deleted, client, pollVars, schedVars, sessVars, loadVars, writers, submission>>
    \/ \E u \in Uuids, f \in FileNames :
          Upload(u, f) /\ rejected' = <<>>
             /\ UNCHANGED <<derive, smart, deleted, client, pollVars, schedVars, sessVars, loadVars, writers,
                            submission>>
    \/ \E j \in DOMAIN jobs, txt \in Texts, signal \in BOOLEAN :
          JobCompletes(j, txt, signal) /\ rejected' = <<>>
             /\ UNCHANGED <<derive, smart, deleted, client, pollVars, schedVars, sessVars, loadVars, writers,
                            submission>>
    \/ \E k \in events, s3Ok \in BOOLEAN, accepted \in BOOLEAN :
          /\ StartTranscription(k, s3Ok, accepted)
          /\ rejected' = IF s3Ok /\ k.ext # "webm" /\ Refused(TriggerJobName(k, now), accepted)
                         THEN KeyId(k) ELSE <<>>
          /\ UNCHANGED <<derive, smart, deleted, client, pollVars, schedVars, sessVars, loadVars, writers,
                         submission>>
    \/ \E k \in objects, accepted \in BOOLEAN :
          /\ ManualStart(k, k.fileName, ClientSource(k.fileName), accepted)
          /\ rejected' = IF k.ext # "webm" /\ Refused(ManualJobName(KeyId(k), now), accepted)
                         THEN KeyId(k) ELSE <<>>
          /\ UNCHANGED <<derive, smart, deleted, client, pollVars, schedVars, sessVars, loadVars, writers,
                         submission>>
    \/ \E j \in notices, s3Ok \in BOOLEAN :
          ProcessTranscription(j, s3Ok) /\ rejected' = <<>>
             /\ UNCHANGED <<derive, smart, deleted, client, pollVars, schedVars, sessVars, loadVars, writers,
                            submission>>

SpecStart == Init /\ [][StartNext]_vars

\* SpecDerive: an id is put into a job name by one of the start handlers
\* and the sweep derives an id from that name

\* the parts of a key before its timestamp: one or two groups of [a-f0-9]
UuidParts == {<<h>> : h \in HexTokens} \cup (HexTokens \X HexTokens)

\* the extensions of the objects the start handlers accept
Extensions == {"mp3", "wav", "m4a"}

DeriveInit ==
    /\ StoreInit /\ PollIdle /\ SchedStart /\ SessStart /\ NoRace /\ LoadStart
    /\ NoSubmission
    /\ rejected = <<>>
    /\ smart = NoSmart
    /\ deleted = {}
    /\ client = NoClient
    /\ \E u \in UuidParts, t0 \in 1..MaxClock, ext \in Extensions, t \in 1..MaxClock,
          composition \in {"storage", "manual"} :
          derive = [NoDerive EXCEPT !.id = u \o <<Stamp(t0)>>, !.ext = ext, !.t = t,
                                    !.composition = composition, !.pc = "chosen"]

\* the jobName of start-transcription or of manual-start-transcription
ComposeJobName ==
    /\ derive.pc = "chosen"
    /\ derive' = [derive EXCEPT
                     !.jobName = IF derive.composition = "storage"
                                 THEN TriggerJobName([id |-> derive.id, ext |-> derive.ext],
                                                     derive.t)
                                 ELSE ManualJobName(derive.id, derive.t),
                     !.pc = "composed"]

\* the transcriptionId the sweep extracts from the job name
DeriveFromJobName ==
    /\ derive.pc = "composed"
    /\ derive' = [derive EXCEPT !.derived = SweepDeriveId(derive.jobName), !.pc = "derived"]

DeriveNext ==
    \/ ComposeJobName
          /\ UNCHANGED <<storeVars, rejected, smart, deleted, client, pollVars, schedVars, sessVars, loadVars, writers,
                         submission>>
    \/ DeriveFromJobName
          /\ UNCHANGED <<storeVars, rejected, smart, deleted, client, pollVars, schedVars, sessVars, loadVars, writers,
                         submission>>

SpecDerive == DeriveInit /\ [][DeriveNext]_vars

\* SpecOnce: one submission whose upload succeeded, the storage-triggered
\* start and the client's check and explicit start, in every order
OnceNext ==
    \/ Tick /\ UNCHANGED frontVars
    \/ \E u \in Uuids, f \in FileNames :
          /\ Upload(u, f)
          /\ fileKeyReturned(<<u, Stamp(now)>>)
          /\ UNCHANGED <<pollVars, schedVars, sessVars, loadVars, writers, submission,
                         rejected, derive, smart, deleted>>
    \/ \E j \in DOMAIN jobs, txt \in Texts, signal \in BOOLEAN :
          JobCompletes(j, txt, signal) /\ UNCHANGED frontVars
    \/ \E k \in events, s3Ok \in BOOLEAN, accepted \in BOOLEAN :
          StartTranscription(k, s3Ok, accepted) /\ UNCHANGED frontVars
    \/ \E reached \in BOOLEAN, serviceOk \in BOOLEAN, fetched \in BOOLEAN :
          /\ checkTranscriptionExists(reached /\ HasRow(client.id))
          /\ IF reached THEN GetTranscription(client.id, serviceOk, fetched)
             ELSE UNCHANGED storeVars
          /\ UNCHANGED <<pollVars, schedVars, sessVars, loadVars, writers, submission,
                         rejected, derive, smart, deleted>>
    \/ \E k \in objects, accepted \in BOOLEAN :
          /\ KeyId(k) = client.id
          /\ startManualTranscriptionJob(k.ext # "webm"
                                            /\ ~Refused(ManualJobName(KeyId(k), now), accepted))
          /\ ManualStart(k, k.fileName, ClientSource(k.fileName), accepted)
          /\ UNCHANGED <<pollPc, attempt, lastResp, lastWait, seen, sweeps, final,
                         schedVars, sessVars, loadVars, writers, submission,
                         rejected, derive, smart, deleted>>
    \/ firstPoll
          /\ UNCHANGED <<storeVars, pollVars, schedVars, sessVars, loadVars, writers,
                         submission, rejected, derive, smart, deleted>>

SpecOnce == Init /\ [][OnceNext]_vars

\* SpecFlow: one submission from the chosen blob to the first poll
FlowNext ==
    \/ SubmitNext
    \/ \E u \in Uuids :
          /\ submission.pc = "uploaded"
          /\ fileKeyReturned(<<u, Stamp(now)>>)
          /\ UNCHANGED <<storeVars, pollVars, schedVars, sessVars, loadVars, writers,
                         submission, rejected, derive, smart, deleted>>
    \/ \E found \in BOOLEAN :
          checkTranscriptionExists(found)
             /\ UNCHANGED <<storeVars, pollVars, schedVars, sessVars, loadVars, writers,
                            submission, rejected, derive, smart, deleted>>
    \/ \E ok \in BOOLEAN :
          startManualTranscriptionJob(ok)
             /\ UNCHANGED <<storeVars, pollPc, attempt, lastResp, lastWait, seen, sweeps, final,
                            schedVars, sessVars, loadVars, writers, submission,
                            rejected, derive, smart, deleted>>
    \/ firstPoll
          /\ UNCHANGED <<storeVars, pollVars, schedVars, sessVars, loadVars, writers,
                         submission, rejected, derive, smart, deleted>>

SpecFlow == SubmitStart /\ [][FlowNext]_vars

\* SpecDelete: a user's delete against a sweep and a completion callback,
\* each in flight or later; the upload is not submitted again
DeleteNext ==
    \/ Tick /\ UNCHANGED frontVars
    \/ \E txt \in Texts, signal \in BOOLEAN :
          JobCompletes(RaceJob, txt, signal) /\ UNCHANGED frontVars
    \/ \E id \in DOMAIN table :
          UserDelete(id)
             /\ UNCHANGED <<pollVars, schedVars, sessVars, loadVars, writers, submission,
                            rejected, derive, smart, client>>
    \/ SweepScan /\ UNCHANGED <<pollVars, schedVars, sessVars, loadVars, submission, lateVars>>
    \/ \E itemOk \in BOOLEAN :
          SweepUpdate(itemOk)
             /\ UNCHANGED <<pollVars, schedVars, sessVars, loadVars, submission, lateVars>>
    \/ \E s3Ok \in BOOLEAN :
          CallbackRead(s3Ok)
             /\ UNCHANGED <<pollVars, schedVars, sessVars, loadVars, submission, lateVars>>
    \/ CallbackUpdate
          /\ UNCHANGED <<pollVars, schedVars, sessVars, loadVars, submission, lateVars>>
    \/ \E j \in notices, s3Ok \in BOOLEAN : ProcessTranscription(j, s3Ok) /\ UNCHANGED frontVars
    \/ \E listOk \in BOOLEAN, scanOk \in BOOLEAN, order \in Orders(CompletedJobs),
          failing \in SUBSET CompletedJobs :
          AutoFix(listOk, scanOk, order, failing) /\ UNCHANGED frontVars

SpecDelete == RaceInit /\ [][DeleteNext]_vars

\* SpecSmart: smartWaitForTranscription called in place of
\* pollForTranscription by handleTranscription
SmartInit ==
    /\ StoreInit /\ SessStart /\ SchedStart /\ NoRace /\ LoadStart /\ NoSubmission
    /\ rejected = <<>> /\ derive = NoDerive /\ deleted = {} /\ client = NoClient
    /\ pollPc = "idle" /\ attempt = 0 /\ lastResp = "none" /\ lastWait = 0
    /\ seen = {} /\ sweeps = 0 /\ final = NoFinal
    /\ ui = Opened(FreshUi, polled)
    /\ SmartStart

SmartNext ==
    \/ \E resp \in SmartResponses :
          SmartImmediate(resp)
             /\ UNCHANGED <<storeVars, rejected, derive, deleted, client, schedVars, sessVars, loadVars,
                            writers, submission, pollPc, attempt, lastResp, lastWait, seen,
                            sweeps, final>>
    \/ \E resp \in SmartResponses :
          SmartWait(resp)
             /\ UNCHANGED <<storeVars, rejected, derive, deleted, client, schedVars, sessVars, loadVars,
                            writers, submission, pollPc, attempt, lastResp, lastWait, seen,
                            sweeps, final>>
    \/ \E resp \in SmartResponses :
          SmartFinal(resp)
             /\ UNCHANGED <<storeVars, rejected, derive, deleted, client, schedVars, sessVars, loadVars,
                            writers, submission, pollPc, attempt, lastResp, lastWait, seen,
                            sweeps, final>>

SpecSmart == SmartInit /\ [][SmartNext]_vars

(***************************************************************************)
(* Claims about the backend (checked under Spec)                           *)
(***************************************************************************)
\* a step of the auto-fix handler: only it leaves an answer in the log
IsSweepStep == sweepLog' # <<>>

LastSweep == sweepLog[Len(sweepLog)]

\* C1: a row whose status is COMPLETED or FAILED is never written back to
\* IN_PROGRESS by any operation.
C1_TerminalNeverReverts ==
    [][\A id \in DOMAIN table :
          (table[id].status \in Terminal /\ id \in DOMAIN table')
              => table'[id].status # "IN_PROGRESS"]_vars

\* C2: when the sweep runs twice in succession over the same completed jobs,
\* with no other operation in between (and no call failing in either run),
\* the second run reports fixedCount = 0 and createdCount = 0.
C2_SecondSweepReportsZero ==
    (/\ Len(sweepLog) = 2
     /\ \A i \in 1..2 : sweepLog[i].http = 200 /\ sweepLog[i].errors = 0)
        => (sweepLog[2].fixedCount = 0 /\ sweepLog[2].createdCount = 0)

\* C3: a sweep leaves every row that is already COMPLETED or FAILED unchanged
\* in every field and adds no further row for the job of such a row.
C3_SweepLeavesTerminalRows ==
    [][IsSweepStep =>
          \A id \in DOMAIN table :
             table[id].status \in Terminal =>
                /\ id \in DOMAIN table'
                /\ table'[id] = table[id]
                /\ \A other \in DOMAIN table' \ DOMAIN table :
                      table'[other].jobName # table[id].jobName]_vars

\* C4: if a row is IN_PROGRESS and the completed-job list holds a job whose
\* derived id is the row's id or whose name is the row's jobName, then after
\* one sweep that met no error the row is COMPLETED, carries that job's
\* transcript and has completedAt set.
C4_SweepRepairsMatchedRow ==
    [][(IsSweepStep /\ LastSweep'.http = 200 /\ LastSweep'.errors = 0) =>
          \A id \in DOMAIN table : \A j \in CompletedJobs :
             (/\ table[id].status = "IN_PROGRESS"
              /\ (SweepDeriveId(j) = id \/ table[id].jobName = j))
                => /\ id \in DOMAIN table'
                   /\ table'[id].status = "COMPLETED"
                   /\ table'[id].text = jobs[j].text
                   /\ table'[id].completedAt # NoTime]_vars

\* C4 witness: a sweep without errors has just fixed a row, which now carries
\* the transcript of its job although its completion signal was never sent.
C4_Witness ==
    /\ sweepLog # <<>>
    /\ LastSweep.http = 200 /\ LastSweep.errors = 0 /\ LastSweep.fixedCount = 1
    /\ \E id \in DOMAIN table :
          /\ table[id].status = "COMPLETED"
          /\ table[id].text = "hello world"
          /\ table[id].originalFileName \in FileNames
          /\ table[id].jobName \in CompletedJobs
          /\ table[id].jobName \notin notices

\* a row stands for job j when it carries its name or the id derived from it
RowFor(t, j) == {id \in DOMAIN t : t[id].jobName = j \/ id = SweepDeriveId(j)}

\* C5: a sweep (meeting no error) creates a row for a completed job if and
\* only if no row in any status stands for that job, and afterwards every
\* completed job has a row.
C5_SweepCreatesOnlyOrphans ==
    [][(IsSweepStep /\ LastSweep'.http = 200 /\ LastSweep'.errors = 0) =>
          \A j \in CompletedJobs :
             /\ (\E id \in DOMAIN table' \ DOMAIN table : table'[id].jobName = j)
                   <=> (RowFor(table, j) = {})
             /\ RowFor(table', j) # {}]_vars

\* C6: a row's text is non-empty if and only if its status is COMPLETED.
C6_TextIffCompleted ==
    \A id \in DOMAIN table : HasText(table[id]) <=> (table[id].status = "COMPLETED")

(***************************************************************************)
(* Claims about the poller (checked under SpecPoll)                        *)
(***************************************************************************)
\* the attempts were used up: the final phase ran
Exhausted == final.via # "none"

Failure == {"Transcription failed: Transcription failed on AWS side",
            "Transcription failed: Failed to fetch"}

Timeout == "Transcription is taking longer than expected"

\* C7: when a status check returns a row in a terminal status (COMPLETED
\* with its text, or FAILED), the session stops at that attempt and surfaces
\* the result.
C7_TerminalStopsPolling ==
    /\ lastResp = "COMPLETED" => (pollPc = "done" /\ ui.transcriptionText # <<>>)
    /\ lastResp = "FAILED" => (pollPc = "done" /\ ui.alert \in Failure)

\* C8: after a transport-level error at an attempt before the last, the
\* session goes on to the next attempt, and only after the interval
\* scheduled for the failed attempt.
C8_TransportErrorWaits ==
    (lastResp = "THROW" /\ ~Exhausted)
        => (pollPc = "loop" /\ lastWait = getPollingInterval(attempt - 1))

\* C9 as claimed: once the attempts are used up without a terminal result,
\* the poller runs one final sweep and then exactly one further status
\* check, whatever the sweep reports.
C9_FinalSweepAndRecheckAlways ==
    (Exhausted /\ seen = {}) => (final.sweeps = 1 /\ final.checks = 1)

\* C9 amended: once the attempts are used up, the poller runs one final
\* sweep, and then exactly one further status check if the sweep reports
\* fixedCount > 0 and none otherwise.
C9_FinalSweepRecheckIfFixed ==
    Exhausted => (/\ pollPc = "done"
                  /\ final.sweeps = 1
                  /\ final.checks = IF final.fixed THEN 1 ELSE 0)

\* C9 witness: a session used up all its attempts without a terminal
\* result, its final sweep reported a fix, and one further status check ran.
C9_Witness ==
    /\ pollPc = "done"
    /\ final.via = "timeout"
    /\ final.fixed
    /\ final.checks = 1
    /\ seen = {}

\* C10: the timeout outcome is shown exactly when the attempts ran out
\* without any status check returning a terminal status, and the failure
\* outcome exactly when a status check returned FAILED: the two are never
\* confused.
C10_TimeoutAndFailureDistinct ==
    pollPc = "done" =>
        /\ (ui.alert = Timeout) <=> (Exhausted /\ seen = {})
        /\ (ui.alert \in Failure) <=> ("FAILED" \in seen)

\* the wait the schedule gives after attempt k, attempts counted from 1
TierWait(k) == IF k <= 5 THEN 2000 ELSE IF k <= 10 THEN 3000 ELSE 5000

\* C11 as claimed: while the status checks keep answering IN_PROGRESS, the
\* sweep is invoked on the first iteration and at attempts 4, 9 and 16
\* (counted from 1), before the next status check.
C11_SweepOnFirstAndCheckpoints ==
    [][(steady /\ steady' /\ attempt' = attempt + 1 /\ attempt' \in {1, 4, 9, 16})
          => sweeps' = sweeps + 1]_vars

\* C11 amended: while the status checks keep answering IN_PROGRESS, the
\* sweep is invoked at attempts 4, 9 and 16 (counted from 1), before the next
\* status check, and at no other attempt: not on the first iteration.
C11_SweepAtCheckpointsOnly ==
    [][(steady /\ steady' /\ attempt' = attempt + 1)
          => /\ attempt' \in {4, 9, 16} => sweeps' = sweeps + 1
             /\ attempt' \notin {4, 9, 16} => sweeps' = sweeps]_vars

\* C11 witness: sixteen status checks answered IN_PROGRESS and the sweep has
\* been invoked three times.
C11_Witness == steady /\ pollPc = "loop" /\ attempt = 16 /\ sweeps = 3

\* C12: in a session whose status checks all answer IN_PROGRESS, the wait
\* after attempt k (counted from 1) is 2 s for k <= 5, 3 s for 6 <= k <= 10
\* and 5 s for k > 10, and 25 s have been slept before attempt 11.
C12_BackoffSchedule ==
    (steady /\ attempt >= 1) =>
        /\ lastWait = TierWait(attempt)
        /\ attempt = 10 => slept = 25000

\* C12 witness: ten status checks answered IN_PROGRESS, attempt 11 is next.
C12_Witness == steady /\ pollPc = "loop" /\ attempt = 10 /\ slept = 25000 /\ lastWait = 3000

(***************************************************************************)
(* Claims about the modal and concurrent sessions (checked under           *)
(* SpecSessions)                                                           *)
(***************************************************************************)
\* a step of the first pollForTranscription call
IsPollStep == attempt' # attempt \/ pollPc' # pollPc

\* a step of the second pollForTranscription call
IsSiblingStep == sibling.pc = "loop" /\ sibling' # sibling

\* C13: after closeModal ran while the polling call was in flight, no later
\* step of that call changes the displayed text, the transcribing flag or
\* the history list.
C13_AbandonedSessionIsSilent ==
    [][(abandoned /\ IsPollStep) =>
          /\ ui'.transcriptionText = ui.transcriptionText
          /\ ui'.isTranscribing = ui.isTranscribing
          /\ ui'.transcriptionHistory = ui.transcriptionHistory]_vars

\* C15: while two calls poll different ids, a step of one never changes the
\* displayed text nor the transcribing flag while the other is still polling.
C15_SessionsDoNotInterfere ==
    [][/\ (IsPollStep /\ sibling.pc = "loop" /\ sibling'.pc = "loop") =>
             /\ ui'.transcriptionText = ui.transcriptionText
             /\ ui'.isTranscribing = ui.isTranscribing
       /\ (IsSiblingStep /\ pollPc = "loop" /\ pollPc' = "loop") =>
             /\ ui'.transcriptionText = ui.transcriptionText
             /\ ui'.isTranscribing = ui.isTranscribing]_vars

(***************************************************************************)
(* Claims about concurrent writers of one row (checked under SpecRace)     *)
(***************************************************************************)
\* C14: for a job that is COMPLETED at the managed service, under every
\* interleaving of a sweep, a status check and the completion callback on
\* the same row, a writer that finds the terminal state already set does not
\* end in a conflict, and once a writer has finished successfully the row is
\* COMPLETED with the job's transcript, whichever writer wrote last.
\* (A sweep that scans after the row became COMPLETED also reports success;
\* the second row it then creates for the job is the subject of C5.)
C14_WritersTolerateTerminalRow ==
    /\ \A w \in Writers :
          (writers[w].pc = "done" /\ writers[w].late) =>
              writers[w].outcome \in {"ok", "unavailable"}
    /\ (\E w \in Writers : writers[w].pc = "done" /\ writers[w].outcome = "ok") =>
          /\ table[RaceRow].status = "COMPLETED"
          /\ table[RaceRow].text = jobs[RaceJob].text

\* all three writers have finished successfully, and the last two found the
\* row already COMPLETED
C14_Witness ==
    /\ \A w \in Writers : writers[w].pc = "done" /\ writers[w].outcome = "ok"
    /\ Cardinality({w \in Writers : writers[w].late}) = 2
    /\ table[RaceRow].status = "COMPLETED"

(***************************************************************************)
(* Claims about the history list (checked under SpecHistory)               *)
(***************************************************************************)
\* a step in which the answer of a list request is merged into the history
IsMergeStep == loads'.merges # loads.merges

NoDuplicateIds(list) == \A i, j \in DOMAIN list : i # j => list[i].id # list[j].id

\* C16: a refresh with server list S and local history L stores a list whose
\* ids are ids(S) united with ids(L), in which every id of S carries the
\* server's entry and every entry of L whose id is not in S is kept.
C16_MergeServerAuthoritative ==
    [][IsMergeStep =>
          LET S == loads'.answer
              L == ui.transcriptionHistory
              M == ui'.transcriptionHistory
          IN  /\ Ids(M) = Ids(S) \cup Ids(L)
              /\ \A i \in DOMAIN M :
                    M[i].id \in Ids(S) => \E j \in DOMAIN S : S[j] = M[i]
              /\ \A id \in Ids(L) \ Ids(S) :
                    SelectSeq(M, LAMBDA item : item.id = id)
                       = SelectSeq(L, LAMBDA item : item.id = id)]_vars

\* a merge has replaced a local entry by the server's different entry of the
\* same id and kept a local entry the server did not list
C16_Witness ==
    /\ loads.answer # <<>>
    /\ Len(ui.transcriptionHistory) > Len(loads.answer)
    /\ \E i \in DOMAIN ui.transcriptionHistory :
          /\ ui.transcriptionHistory[i].id \in Ids(loads.answer)
          /\ ui.transcriptionHistory[i].text[1] = "revised"
    /\ polled \in Ids(loads.answer)
    /\ pollPc = "done"

\* C17: the list stored by a refresh holds no two entries with the same id.
C17_RefreshStoresNoDuplicates ==
    [][IsMergeStep => NoDuplicateIds(ui'.transcriptionHistory)]_vars

\* C18: two list requests are issued at least 2 s apart, and a trigger that
\* comes within 2 s of the last request sends no request and leaves the
\* history unchanged.
C18_RefreshRateLimit ==
    [][/\ (Len(loads'.issued) > Len(loads.issued) /\ loads.issued # <<>>) =>
             dateNow - loads.issued[Len(loads.issued)] >= Cooldown
       /\ (loads'.skipped # loads.skipped) =>
             /\ loads'.issued = loads.issued
             /\ loads'.inflight = loads.inflight
             /\ ui'.transcriptionHistory = ui.transcriptionHistory
       /\ (loads.issued # <<>> /\ dateNow - loads.issued[Len(loads.issued)] < Cooldown) =>
             /\ loads'.issued = loads.issued
             /\ loads'.inflight <= loads.inflight]_vars

\* a trigger 1999 ms after a request was skipped and one exactly 2000 ms
\* after it issued the second request
C18_Witness ==
    /\ loads.skipped
    /\ Len(loads.issued) = 2
    /\ loads.issued[2] - loads.issued[1] = Cooldown
    /\ dateNow = loads.issued[2]

(***************************************************************************)
(* Claims about the validation of a submission (checked under SpecSubmit)  *)
(***************************************************************************)
\* the errors of the size and type checks of the client and the handler
ValidationErrors == {"File size too large", "Invalid file type"}

\* C19: a submission whose media type is outside the supported set (mp3,
\* wav, m4a, mp4), such as audio/ogg or audio/webm, gets no write credential,
\* is never uploaded, and ends in a validation error.
C19_UnsupportedTypeRejectedBeforeWrite ==
    submission.fileType \notin {"audio/mp3", "audio/mpeg", "audio/wav", "audio/m4a",
                                "audio/mp4"} =>
        /\ ~submission.credential
        /\ ~submission.stored
        /\ submission.pc \in {"selected", "submitting", "rejected", "failed"}
        /\ (submission.pc \in {"rejected", "failed"}
              /\ submission.error # "Failed to get upload URL")
             => submission.error \in ValidationErrors

C21_RejectedStartLeavesFailedRow ==
    rejected # <<>> =>
        /\ HasRow(rejected)
        /\ table[rejected].status = "FAILED"
        /\ table[rejected].error # NoError

(***************************************************************************)
(* Further claims about the backend handlers (checked under Spec)          *)
(***************************************************************************)
\* C22: under any sequence of status checks, completion callbacks, sweeps
\* and job starts, a row that is COMPLETED never becomes FAILED and a row
\* that is FAILED never becomes COMPLETED.
C22_TerminalStatusNeverSwapped ==
    [][\A id \in DOMAIN table \cap DOMAIN table' :
          /\ ~(table[id].status = "COMPLETED" /\ table'[id].status = "FAILED")
          /\ ~(table[id].status = "FAILED" /\ table'[id].status = "COMPLETED")]_vars

(***************************************************************************)
(* Claim about the id derivation of the sweep (checked under SpecDerive)   *)
(***************************************************************************)
\* C23: for every canonical id X and each of the two job-name compositions,
\* the id the sweep derives from a job name composed with X is X.
C23_DeriveRoundTrips ==
    derive.pc = "derived" => derive.derived = derive.id

\* C24: whichever call of the sweep fails (listing the completed jobs,
\* scanning the IN_PROGRESS rows, fetching a job or a transcript), the
\* auto-fix request ends with a normal answer carrying the counts, never
\* with an error answer.
C24_SweepNeverFails ==
    \A i \in DOMAIN sweepLog : sweepLog[i].http = 200

\* C25: a completed job whose processing fails inside a sweep is skipped and
\* the loop goes on: processedCount is the number of listed jobs, and every
\* listed job was either fixed, created or counted as failed.
C25_ItemFailureDoesNotAbort ==
    (sweepLog # <<>> /\ LastSweep.http = 200) =>
        /\ LastSweep.processedCount = Cardinality(CompletedJobs)
        /\ LastSweep.fixedCount + LastSweep.createdCount + LastSweep.errors
              = LastSweep.processedCount

\* a sweep over two completed jobs in which one job failed and the other
\* was still handled
C25_Witness ==
    /\ sweepLog # <<>>
    /\ LastSweep.http = 200
    /\ LastSweep.processedCount = 2
    /\ LastSweep.errors = 1
    /\ LastSweep.fixedCount + LastSweep.createdCount = 1

(***************************************************************************)
(* Claim about the smart-wait variant (checked under SpecSmart)            *)
(***************************************************************************)
\* the rounds the smart wait is to go through before any fallback: the
\* immediate one, then one per wait of 1 s, 3 s, 5 s and 8 s
RoundsDone == Cardinality({k \in DOMAIN smart.log : smart.log[k].do = "check"})

\* C26: the smart wait runs the sweep with zero wait and checks the status;
\* while the status is not terminal it waits 1 s, 3 s, 5 s, 8 s in that
\* order, each wait followed by a sweep and then a status check; a terminal
\* status ends it; and when none of these five checks was terminal it falls
\* back to the 30-attempt polling schedule.
C26_SmartWaitSchedule ==
    LET log == smart.log
        checks == {k \in DOMAIN log : log[k].do = "check"}
        waits == {k \in DOMAIN log : log[k].do = "wait"}
        nth(k) == Cardinality({m \in checks : m < k})
    IN  /\ \A k \in checks : k > 1 /\ log[k - 1].do = "sweep"
        /\ \A k \in waits :
              /\ nth(k) \in 1..4
              /\ log[k].ms = <<1000, 3000, 5000, 8000>>[nth(k)]
              /\ k < Len(log) /\ log[k + 1].do = "sweep"
        /\ \A k \in checks :
              (k > 2 /\ nth(k) \in 1..4) => log[k - 2].do = "wait"
        /\ \A k \in checks :
              log[k].resp \in {"COMPLETED", "FAILED"} => (k = Len(log) /\ smart.pc = "done")
        /\ RoundsDone <= 5
        /\ (RoundsDone = 5 /\ \A k \in checks : log[k].resp \notin {"COMPLETED", "FAILED"})
              => (smart.pc = "done" /\ pollPc = "loop")

(***************************************************************************)
(* Claim about deletes (checked under SpecDelete)                          *)
(***************************************************************************)
\* C27: once a user's delete of id X succeeded and X was not submitted
\* again, the table holds no row for X and no row for a job of X: no later
\* sweep, no completion callback and no sweep update in flight re-creates one.
C27_DeletedRowStaysDeleted ==
    \A id \in deleted :
       /\ ~HasRow(id)
       /\ \A r \in DOMAIN table : table[r].jobName \notin JobsOf(id)

(***************************************************************************)
(* Claim about the two starts of one submission (checked under SpecOnce)   *)
(***************************************************************************)
\* C28: for one submission without a client retry, the managed service holds
\* at most one job for the id, however the storage-triggered start and the
\* client's existence check and explicit start interleave.
C28_AtMostOneJobPerSubmission ==
    \A id \in CanonicalIds : Cardinality(JobsOf(id)) <= 1

(***************************************************************************)
(* Claim about termination of a polling session (checked under             *)
(* SpecPollFair)                                                           *)
(***************************************************************************)
\* the status checks the loop has made: one per completed iteration, and the
\* one of the iteration that ended the session from inside the loop
ScheduledChecks ==
    attempt + (IF pollPc = "done" /\ final.via \in {"none", "catch"} THEN 1 ELSE 0)

\* C29: every polling session terminates: whatever the status checks and the
\* sweeps answer, pollForTranscription makes at most 30 scheduled status
\* checks and at most one final re-check, and it returns, with the
\* transcribing flag cleared.
C29_PollingTerminates ==
    /\ [](/\ ScheduledChecks <= 30
          /\ final.checks <= 1
          /\ (pollPc = "done" => ~ui.isTranscribing))
    /\ <>(pollPc = "done")

\* a session that made all 30 scheduled checks, then the final sweep and the
\* re-check, and returned
C29_Witness ==
    /\ pollPc = "done"
    /\ ScheduledChecks = 30
    /\ final.via = "timeout"
    /\ final.checks = 1
    /\ ~ui.isTranscribing

(***************************************************************************)
(* Claim about the order of a submission's requests (checked under         *)
(* SpecFlow)                                                               *)
(***************************************************************************)
\* the requests that start a job or poll for its status
StartOrPoll ==
    {i \in DOMAIN client.requests :
        client.requests[i] \in {"POST /manual-transcription", "poll"}}

\* C30: the explicit start-job request and the first status poll of a
\* submission are issued only once the write credential was obtained and
\* the upload succeeded; when either failed, neither a start-job request
\* nor a poll is issued.
C30_StartAndPollAfterUpload ==
    /\ StartOrPoll # {} => (submission.credential /\ submission.stored)
    /\ submission.pc = "failed" => StartOrPoll = {}
    /\ (~submission.credential \/ ~submission.stored) => client.pc = "none"

\* a submission that got its credential, stored the blob, found no row,
\* posted the explicit start and went on to poll
C30_Witness ==
    /\ submission.credential
    /\ submission.stored
    /\ client.pc = "polling"
    /\ client.requests = <<"GET /transcriptions/{id}", "POST /manual-transcription", "poll">>

====
